---- MODULE Spec2Model ----
(***************************************************************************)
(* Model of the page store of vella-backend: PageController over the      *)
(* mongoose PageModel ("pages" collection, _id = normalized URL).          *)
(*                                                                         *)
(* The collection is a set of documents; the unique _id index, the         *)
(* multi-document transaction of updatePageUrl (snapshot reads, buffered   *)
(* writes, write conflicts) and the ClientSession transaction state        *)
(* machine are modelled as MongoDB and its driver document them.           *)
(* Every await of updatePageUrl is a separate step, so other callers       *)
(* interleave between them.                                                *)
(*                                                                         *)
(* Spec is the controller under two concurrent requests.  SpecHttp is the  *)
(* path of one PUT pages/* request: cleanUrl over character sequences and  *)
(* the updatePage handler that passes its result to the controller.        *)
(***************************************************************************)
EXTENDS Naturals, FiniteSets, Sequences, TLC

\* ------------------------------------------------------------------ inputs
\* The requests the server handles concurrently; each makes one controller call.
Requests == {"r1", "r2"}

\* ------------------------------------------------------------------ bounds
\* How many different non-empty URLs the requests use.
NumUrls == 3

UrlPool == <<"a", "b", "c", "d">>

\* URLs as they reach the controller ("" is the empty key).
Urls == {""} \cup { UrlPool[i] : i \in 1..NumUrls }

Undefined == "undefined"

\* {page, description} payloads of a request body: an empty title without a
\* description, and a title with one.
Payloads ==
  { [page |-> "",  description |-> Undefined],
    [page |-> "u", description |-> "d"] }

\* ------------------------------------------------------------------ data
\* IPage: a document of the "pages" collection.
IPage(id, page, description) ==
  [_id |-> id, page |-> page, description |-> description]

\* JavaScript null (findById... on a miss) and "no value".
Null == [null |-> TRUE]

NoCall == [op |-> "none", pageId |-> "", url |-> "", page |-> "", description |-> Undefined]

NoRet == [status |-> "none", value |-> Null, err |-> "none"]

NoWrites == [del |-> {}, ins |-> {}]

VARIABLES
  pages,        \* the committed "pages" collection: a set of documents
  pc,           \* where each caller is in its controller call
  call,         \* the controller method and arguments of the call
  session,      \* the ClientSession of updatePageUrl: none / open / ended
  txnState,     \* the driver's transaction state of that session
  writes,       \* the server's uncommitted writes of the transaction
  stale,        \* _ids committed by others since the transaction's snapshot
  deletedPage,  \* updatePageUrl's local deletedPage
  caught,       \* updatePageUrl's catch binding err
  ret,          \* what the call returned or threw
  pages0,       \* the collection as the server found it (history)
  raw,          \* req.params[0] of the request under study, as characters
  body,         \* req.body of that request: {page, description}
  cleaned       \* the results of cleanUrl applied to raw, then to its result

vars == <<pages, pc, call, session, txnState, writes, stale, deletedPage, caught, ret, pages0, raw, body, cleaned>>

\* ------------------------------------------------------------------ store
\* The document with this _id, or null.
findById(coll, id) ==
  IF \E d \in coll : d._id = id THEN CHOOSE d \in coll : d._id = id ELSE Null

Ids(coll) == { d._id : d \in coll }

\* Mutant: the schema does not require page.
pageSchemaPageOptional(doc) == doc._id # ""

\* The schema's validators: _id and page are required Strings; mongoose's
\* required validator rejects the empty string.
pageSchema(doc) == doc._id # "" /\ doc.page # ""

\* The _ids another caller's open transaction has written and not committed.
LockedByOther(p) ==
  UNION { Ids(writes[q].del) \cup Ids(writes[q].ins) : q \in Requests \ {p} }

\* A committed write to these _ids makes them stale for every transaction
\* that has taken its snapshot and still has its insert to do.
Touch(p, ids) ==
  [q \in Requests |-> IF q # p /\ pc[q] = "ins" THEN stale[q] \cup ids ELSE stale[q]]

\* The collections the server can find when it starts: documents earlier
\* requests left (here with the title "t" and no description), which pass
\* the schema and have distinct _ids.
Stores ==
  SUBSET { IPage(u, "t", Undefined) : u \in Urls \ {""} }

\* No request has been dispatched yet.
Idle ==
  /\ pc = [p \in Requests |-> "idle"]
  /\ call = [p \in Requests |-> NoCall]
  /\ session = [p \in Requests |-> "none"]
  /\ txnState = [p \in Requests |-> "NO_TRANSACTION"]
  /\ writes = [p \in Requests |-> NoWrites]
  /\ stale = [p \in Requests |-> {}]
  /\ deletedPage = [p \in Requests |-> Null]
  /\ caught = [p \in Requests |-> "none"]
  /\ ret = [p \in Requests |-> NoRet]

Init ==
  /\ pages \in Stores
  /\ pages0 = pages
  /\ Idle
  /\ raw = <<>>
  /\ body = [page |-> "", description |-> Undefined]
  /\ cleaned = <<>>

\* ------------------------------------------------------------------ calls
Ok(v) == [status |-> "ok", value |-> v, err |-> "none"]
Throw(e) == [status |-> "error", value |-> Null, err |-> e]

\* The controller calls a request can make, with their arguments.
Calls ==
  { [NoCall EXCEPT !.op = "getAll"] }
  \cup { [NoCall EXCEPT !.op = op, !.pageId = id] :
           op \in {"getPageById", "deletePage"}, id \in Urls }
  \cup { [op |-> "createPage", pageId |-> "", url |-> u, page |-> b.page, description |-> b.description] :
           u \in Urls, b \in Payloads }
  \cup { [op |-> "updatePage", pageId |-> id, url |-> "", page |-> b.page, description |-> b.description] :
           id \in Urls, b \in Payloads }
  \cup { [op |-> "updatePageUrl", pageId |-> old, url |-> u, page |-> b.page, description |-> b.description] :
           old \in Urls, u \in Urls, b \in Payloads }

\* A request reaches a controller method.
Call(p, c) ==
  /\ pc[p] = "idle"
  /\ pc' = [pc EXCEPT ![p] = "called"]
  /\ call' = [call EXCEPT ![p] = c]
  /\ UNCHANGED <<pages, session, txnState, writes, stale, deletedPage, caught, ret, pages0, raw, body, cleaned>>

\* getAll: PageModel.find().
getAll(p) ==
  /\ pc[p] = "called" /\ call[p].op = "getAll"
  /\ ret' = [ret EXCEPT ![p] = Ok(pages)]
  /\ pc' = [pc EXCEPT ![p] = "done"]
  /\ UNCHANGED <<pages, call, session, txnState, writes, stale, deletedPage, caught, pages0, raw, body, cleaned>>

\* getPageById: PageModel.findById(pageId).
getPageById(p) ==
  /\ pc[p] = "called" /\ call[p].op = "getPageById"
  /\ ret' = [ret EXCEPT ![p] = Ok(findById(pages, call[p].pageId))]
  /\ pc' = [pc EXCEPT ![p] = "done"]
  /\ UNCHANGED <<pages, call, session, txnState, writes, stale, deletedPage, caught, pages0, raw, body, cleaned>>

\* Mutant: no unique index rejects a second document with the _id.
createResultNoIndex(coll, doc) ==
  IF ~pageSchema(doc) THEN Throw("InvalidInput") ELSE Ok(doc)

\* What PageModel.create does to a collection: the schema's validation,
\* then the unique _id index.
createResult(coll, doc) ==
  IF ~pageSchema(doc) THEN Throw("InvalidInput")
  ELSE IF doc._id \in Ids(coll) THEN Throw("DuplicateKey")
  ELSE Ok(doc)

\* createPage: PageModel.create({page, _id: url, description}).  A write to
\* an _id that an open transaction has written waits for that transaction.
createPage(p) ==
  /\ pc[p] = "called" /\ call[p].op = "createPage"
  /\ LET doc == IPage(call[p].url, call[p].page, call[p].description)
         r == createResult(pages, doc)
     IN /\ (pageSchema(doc) => doc._id \notin LockedByOther(p))
        /\ ret' = [ret EXCEPT ![p] = r]
        /\ pages' = IF r.status = "ok" THEN pages \cup {doc} ELSE pages
        /\ stale' = IF r.status = "ok" THEN Touch(p, {doc._id}) ELSE stale
  /\ pc' = [pc EXCEPT ![p] = "done"]
  /\ UNCHANGED <<call, session, txnState, writes, deletedPage, caught, pages0, raw, body, cleaned>>

\* The descriptions findByIdAndUpdate can leave for {page, description}: the
\* given one; for an undefined one either the old one (mongoose strips the
\* undefined key) or none (mongoose sets it to null), by mongoose version.
updatedDescriptions(old, description) ==
  IF description = Undefined THEN {old.description, Undefined} ELSE {description}

\* Mutant: the update writes the new title into _id as well.
updatedPageRekeyed(old, page, description) == IPage(page, page, description)

\* The document findByIdAndUpdate leaves of old: page and description are
\* set, _id is kept.
updatedPage(old, page, description) == IPage(old._id, page, description)

\* Mutant: the update runs with upsert, a miss inserts the document.
updateMissUpserts(coll, pageId, page, description) ==
  coll \cup {IPage(pageId, page, description)}

\* The collection after findByIdAndUpdate found no document with the _id.
updateMiss(coll, pageId, page, description) == coll

\* updatePage: PageModel.findByIdAndUpdate(pageId, {page, description},
\* {new: true, runValidators: true}).
updatePage(p) ==
  /\ pc[p] = "called" /\ call[p].op = "updatePage"
  /\ LET old == findById(pages, call[p].pageId)
     IN IF call[p].page = ""
        THEN /\ ret' = [ret EXCEPT ![p] = Throw("InvalidInput")]
             /\ UNCHANGED <<pages, stale>>
        ELSE IF old = Null
        THEN /\ ret' = [ret EXCEPT ![p] = Ok(Null)]
             /\ pages' = updateMiss(pages, call[p].pageId, call[p].page, call[p].description)
             /\ UNCHANGED stale
        ELSE /\ old._id \notin LockedByOther(p)
             /\ \E d \in updatedDescriptions(old, call[p].description) :
                  LET new == updatedPage(old, call[p].page, d)
                  IN /\ pages' = (pages \ {old}) \cup {new}
                     /\ ret' = [ret EXCEPT ![p] = Ok(new)]
             /\ stale' = Touch(p, {old._id})
  /\ pc' = [pc EXCEPT ![p] = "done"]
  /\ UNCHANGED <<call, session, txnState, writes, deletedPage, caught, pages0, raw, body, cleaned>>

\* Mutant: the delete's filter matches every document.
deletedAll(coll, d) == {}

\* The collection after findByIdAndDelete found d (or null) and removed it.
deleted(coll, d) == coll \ {d}

\* deletePage: PageModel.findByIdAndDelete(pageId).
deletePage(p) ==
  /\ pc[p] = "called" /\ call[p].op = "deletePage"
  /\ LET d == findById(pages, call[p].pageId)
     IN /\ (d # Null => d._id \notin LockedByOther(p))
        /\ ret' = [ret EXCEPT ![p] = Ok(d)]
        /\ pages' = deleted(pages, d)
        /\ stale' = IF d # Null THEN Touch(p, {d._id}) ELSE stale
  /\ pc' = [pc EXCEPT ![p] = "done"]
  /\ UNCHANGED <<call, session, txnState, writes, deletedPage, caught, pages0, raw, body, cleaned>>

\* ------------------------------------------------------------------ updatePageUrl
\* const session = await PageModel.startSession(); session.startTransaction();
startSession(p) ==
  /\ pc[p] = "called" /\ call[p].op = "updatePageUrl"
  /\ session' = [session EXCEPT ![p] = "open"]
  /\ txnState' = [txnState EXCEPT ![p] = "STARTING_TRANSACTION"]
  /\ pc' = [pc EXCEPT ![p] = "del"]
  /\ UNCHANGED <<pages, call, writes, stale, deletedPage, caught, ret, pages0, raw, body, cleaned>>

\* The server ends the transaction: its uncommitted writes are dropped.
Rollback(p) == [writes EXCEPT ![p] = NoWrites]

\* Mutant: the transaction's delete is lost, only its insert shows.
ViewKeepsDeleted(p) == pages \cup writes[p].ins

\* The collection as the transaction sees it: its snapshot with its own
\* writes applied.
View(p) == (pages \ writes[p].del) \cup writes[p].ins

\* Mutant: ending a transaction without a commit keeps what it wrote.
AbortedKeepsWrites(p) == View(p)

\* The committed collection when a transaction ends without a commit: as it
\* was, whatever the transaction had written.
Aborted(p) == pages

\* Mutant: the delete runs outside the session and is committed at once.
sessionDeleteUnbound(coll, d) == coll \ {d}

\* .session(session) binds the delete to the transaction: the committed
\* collection keeps the document until the commit.
sessionDelete(coll, d) == coll

\* Mutant: the insert runs outside the session and is committed at once.
sessionCreateUnbound(coll, doc) == coll \cup {doc}

\* { session } binds the insert to the transaction: the committed collection
\* does not hold the document until the commit.
sessionCreate(coll, doc) == coll

\* Mutant: the miss is not checked.
missingNever(d) == FALSE

\* if (!deletedPage)
missing(d) == d = Null

\* Mutant: the description is not copied into the new document.
newPageDataNoDescription(p) == IPage(call[p].url, call[p].page, Undefined)

\* The document updatePageUrl creates from newPageData.
newPageData(p) == IPage(call[p].url, call[p].page, call[p].description)

\* await PageModel.findByIdAndDelete(oldUrl).session(session), and the
\* NotFound throw that follows a miss.  The transaction's first operation
\* takes its snapshot; deleting a document another open transaction has
\* deleted is a write conflict, which ends the transaction on the server.
findByIdAndDelete(p) ==
  /\ pc[p] = "del"
  /\ txnState' = [txnState EXCEPT ![p] = "TRANSACTION_IN_PROGRESS"]
  /\ stale' = [stale EXCEPT ![p] = {}]
  /\ LET d == findById(pages, call[p].pageId)
     IN IF d # Null /\ d._id \in LockedByOther(p)
        THEN /\ caught' = [caught EXCEPT ![p] = "WriteConflict"]
             /\ pc' = [pc EXCEPT ![p] = "abort"]
             /\ pages' = Aborted(p)
             /\ UNCHANGED <<writes, deletedPage>>
        ELSE /\ deletedPage' = [deletedPage EXCEPT ![p] = d]
             /\ writes' = [writes EXCEPT ![p].del = IF d = Null THEN {} ELSE {d}]
             /\ pages' = sessionDelete(pages, d)
             /\ IF missing(d)
                THEN /\ caught' = [caught EXCEPT ![p] = "NotFound"]
                     /\ pc' = [pc EXCEPT ![p] = "abort"]
                ELSE /\ pc' = [pc EXCEPT ![p] = "ins"]
                     /\ UNCHANGED caught
  /\ UNCHANGED <<call, session, ret, pages0, raw, body, cleaned>>

\* await PageModel.create([{_id: url, page, description}], {session}).
\* Validation fails before anything is sent; an _id written by another open
\* transaction or committed since the snapshot is a write conflict; an _id
\* the transaction sees is a duplicate key.  A failed write ends the
\* transaction on the server.
create(p) ==
  /\ pc[p] = "ins"
  /\ LET doc == newPageData(p)
     IN IF ~pageSchema(doc)
        THEN /\ caught' = [caught EXCEPT ![p] = "InvalidInput"]
             /\ pc' = [pc EXCEPT ![p] = "abort"]
             /\ UNCHANGED <<pages, writes>>
        ELSE IF doc._id \in LockedByOther(p) \cup stale[p]
        THEN /\ caught' = [caught EXCEPT ![p] = "WriteConflict"]
             /\ pc' = [pc EXCEPT ![p] = "abort"]
             /\ pages' = Aborted(p)
             /\ writes' = Rollback(p)
        ELSE IF doc._id \in Ids(View(p))
        THEN /\ caught' = [caught EXCEPT ![p] = "DuplicateKey"]
             /\ pc' = [pc EXCEPT ![p] = "abort"]
             /\ pages' = Aborted(p)
             /\ writes' = Rollback(p)
        ELSE /\ writes' = [writes EXCEPT ![p].ins = {doc}]
             /\ pages' = sessionCreate(pages, doc)
             /\ pc' = [pc EXCEPT ![p] = "commit"]
             /\ UNCHANGED caught
  /\ stale' = [stale EXCEPT ![p] = {}]
  /\ UNCHANGED <<call, session, txnState, deletedPage, ret, pages0, raw, body, cleaned>>

\* await session.commitTransaction(); session.endSession(); return newPage[0].
\* The commit applies the transaction's writes at once, or fails (the store
\* is unreachable, the transaction has expired) and applies none; either way
\* the driver's state is TRANSACTION_COMMITTED afterwards.
commitTransaction(p, reachable) ==
  /\ pc[p] = "commit"
  /\ txnState' = [txnState EXCEPT ![p] = "TRANSACTION_COMMITTED"]
  /\ writes' = Rollback(p)
  /\ IF reachable
     THEN /\ pages' = View(p)
          /\ stale' = Touch(p, Ids(writes[p].del) \cup Ids(writes[p].ins))
          /\ session' = [session EXCEPT ![p] = "ended"]
          /\ ret' = [ret EXCEPT ![p] = Ok(CHOOSE d \in writes[p].ins : TRUE)]
          /\ pc' = [pc EXCEPT ![p] = "done"]
          /\ UNCHANGED caught
     ELSE /\ caught' = [caught EXCEPT ![p] = "StoreUnavailable"]
          /\ pc' = [pc EXCEPT ![p] = "abort"]
          /\ pages' = Aborted(p)
          /\ UNCHANGED <<stale, session, ret>>
  /\ UNCHANGED <<call, deletedPage, pages0, raw, body, cleaned>>

\* catch (err): await session.abortTransaction(); session.endSession();
\* throw err.  The driver's abortTransaction throws after commitTransaction
\* has been called on the session, and then nothing below it runs.
abortTransaction(p) ==
  /\ pc[p] = "abort"
  /\ IF txnState[p] = "TRANSACTION_COMMITTED"
     THEN /\ ret' = [ret EXCEPT ![p] = Throw("TransactionError")]
          /\ UNCHANGED <<txnState, session>>
     ELSE /\ txnState' = [txnState EXCEPT ![p] = "TRANSACTION_ABORTED"]
          /\ session' = [session EXCEPT ![p] = "ended"]
          /\ ret' = [ret EXCEPT ![p] = Throw(caught[p])]
  /\ pages' = Aborted(p)
  /\ writes' = Rollback(p)
  /\ pc' = [pc EXCEPT ![p] = "done"]
  /\ UNCHANGED <<call, stale, deletedPage, caught, pages0, raw, body, cleaned>>

Next ==
  \/ \E p \in Requests, c \in Calls : Call(p, c)
  \/ \E p \in Requests : getAll(p)
  \/ \E p \in Requests : getPageById(p)
  \/ \E p \in Requests : createPage(p)
  \/ \E p \in Requests : updatePage(p)
  \/ \E p \in Requests : deletePage(p)
  \/ \E p \in Requests : startSession(p)
  \/ \E p \in Requests : findByIdAndDelete(p)
  \/ \E p \in Requests : create(p)
  \/ \E p \in Requests, reachable \in BOOLEAN : commitTransaction(p, reachable)
  \/ \E p \in Requests : abortTransaction(p)

Spec == Init /\ [][Next]_vars

\* ------------------------------------------------------------------ request path
\* Strings that cleanUrl works on are sequences of one-character strings.
Http == <<"h", "t", "t", "p", ":", "/", "/">>
Https == <<"h", "t", "t", "p", "s", ":", "/", "/">>
ExampleCom == <<"e", "x", "a", "m", "p", "l", "e", ".", "c", "o", "m">>

\* The pieces raw URLs are put together from.
Pieces == { Http, Https, <<"/">>, <<".">>, <<"a">>, ExampleCom }

\* How many pieces a raw URL has at most.
MaxPieces == 3

RECURSIVE Joined(_)
Joined(n) ==
  IF n = 0 THEN { <<>> }
  ELSE Joined(n - 1) \cup { s \o t : s \in Joined(n - 1), t \in Pieces }

RawUrls == Joined(MaxPieces)

StartsWith(s, prefix) ==
  Len(s) >= Len(prefix) /\ SubSeq(s, 1, Len(prefix)) = prefix

\* url.replace(/^https?:\/\//, ''): one scheme at the very start.
stripScheme(url) ==
  IF StartsWith(url, Http) THEN SubSeq(url, Len(Http) + 1, Len(url))
  ELSE IF StartsWith(url, Https) THEN SubSeq(url, Len(Https) + 1, Len(url))
  ELSE url

\* cleanedUrl.replace(/^\/|\/$/g, ''): the scan removes a slash at the
\* start, and then a slash at the end if one is left there.
stripSlashes(s) ==
  LET t == IF s # <<>> /\ Head(s) = "/" THEN Tail(s) ELSE s
  IN IF t # <<>> /\ t[Len(t)] = "/" THEN SubSeq(t, 1, Len(t) - 1) ELSE t

\* Mutant: replace without the g flag, only the first dot is replaced.
replaceFirstDot(s) ==
  [i \in 1..Len(s) |->
     IF s[i] = "." /\ (\A j \in 1..(i - 1) : s[j] # ".") THEN "-" ELSE s[i]]

\* cleanedUrl.replace(/\./g, '-').
replaceDots(s) == [i \in 1..Len(s) |-> IF s[i] = "." THEN "-" ELSE s[i]]

cleanUrl(url) == replaceDots(stripSlashes(stripScheme(url)))

\* The JavaScript string of a character sequence.
RECURSIVE Str(_)
Str(s) == IF s = <<>> THEN "" ELSE Head(s) \o Str(Tail(s))

\* The bodies of the request under study.
Bodies == Payloads \cup { [page |-> UrlPool[1], description |-> Undefined] }

\* The collections the request under study can find: documents at the key
\* its URL cleans to and at the key its body's page spells.
HttpStores(url, b) ==
  SUBSET { IPage(k, "t", Undefined) : k \in {Str(cleanUrl(url)), b.page} \ {""} }

InitHttp ==
  /\ raw \in RawUrls
  /\ body \in Bodies
  /\ cleaned = <<>>
  /\ pages \in HttpStores(raw, body)
  /\ pages0 = pages
  /\ Idle

\* cleanUrl is applied to the raw URL, and once more to what it returned.
Normalize ==
  /\ Len(cleaned) < 2
  /\ cleaned' = Append(cleaned, cleanUrl(IF cleaned = <<>> THEN raw ELSE cleaned[Len(cleaned)]))
  /\ UNCHANGED <<pages, pc, call, session, txnState, writes, stale, deletedPage, caught, ret, pages0, raw, body>>

\* The updatePage handler of PUT pages/*:
\* PageController.updatePage(req.body.page, cleanUrl(req.params[0]), req.body.description),
\* where the first parameter of updatePage is pageId and the second is page.
updatePageHandler(p) ==
  /\ \A q \in Requests : pc[q] = "idle"
  /\ call' = [call EXCEPT ![p] =
                [op |-> "updatePage", pageId |-> body.page, url |-> "",
                 page |-> Str(cleanUrl(raw)), description |-> body.description]]
  /\ pc' = [pc EXCEPT ![p] = "called"]
  /\ UNCHANGED <<pages, session, txnState, writes, stale, deletedPage, caught, ret, pages0, raw, body, cleaned>>

NextHttp ==
  \/ Normalize
  \/ \E p \in Requests : updatePageHandler(p)
  \/ \E p \in Requests : updatePage(p)

SpecHttp == InitHttp /\ [][NextHttp]_vars

\* ------------------------------------------------------------------ properties
IsRename(p) == call[p].op = "updatePageUrl"

\* No other request has reached the store yet.
Alone(p) == \A q \in Requests \ {p} : pc[q] \in {"idle", "called"}

\* The step in which p's transaction commits and updatePageUrl returns.
Commits(p) == pc[p] = "commit" /\ pc'[p] = "done"

\* C1 (as amended): when updatePageUrl(oldUrl, {url, page, description})
\* returns successfully, the collection holds exactly the document
\* {_id: url, page, description} at url, that document is what the call
\* returns, and, for url # oldUrl, it holds no document at oldUrl.
C1_RenameSuccess ==
  [][\A p \in Requests : Commits(p) =>
       LET new == IPage(call[p].url, call[p].page, call[p].description)
       IN /\ findById(pages', call[p].url) = new
          /\ ret'[p] = Ok(new)
          /\ (call[p].url # call[p].pageId => findById(pages', call[p].pageId) = Null)]_vars

\* C1 as stated: for every new key, the old key is absent after a successful
\* rename.
C1_Original ==
  [][\A p \in Requests : Commits(p) =>
       /\ findById(pages', call[p].url) = IPage(call[p].url, call[p].page, call[p].description)
       /\ findById(pages', call[p].pageId) = Null]_vars

C1_Witness ==
  \E p \in Requests :
    /\ pc[p] = "done" /\ IsRename(p) /\ ret[p].status = "ok"
    /\ call[p].url # call[p].pageId
    /\ deletedPage[p] \in pages0
    /\ findById(pages, call[p].pageId) = Null
    /\ findById(pages, call[p].url) = IPage(call[p].url, "u", "d")

\* p's rename found documents at both of its keys, which are distinct, and
\* ran with no other request at the store.
Conflict(p) ==
  /\ pc[p] = "done" /\ IsRename(p) /\ Alone(p)
  /\ call[p].pageId # call[p].url
  /\ findById(pages0, call[p].pageId) # Null
  /\ findById(pages0, call[p].url) # Null

\* C2 (as amended): a rename onto an occupied key fails, with DuplicateKey
\* when the new title is not empty and with InvalidInput when it is, and
\* afterwards both documents are exactly as they were.
C2_ConflictRollback ==
  \A p \in Requests : Conflict(p) =>
    /\ ret[p] = Throw(IF call[p].page = "" THEN "InvalidInput" ELSE "DuplicateKey")
    /\ findById(pages, call[p].pageId) = findById(pages0, call[p].pageId)
    /\ findById(pages, call[p].url) = findById(pages0, call[p].url)
    /\ pages = pages0

\* C2 as stated: the rename fails with DuplicateKey whatever the new data.
C2_Original ==
  \A p \in Requests : Conflict(p) =>
    /\ ret[p] = Throw("DuplicateKey")
    /\ findById(pages, call[p].pageId) = findById(pages0, call[p].pageId)
    /\ findById(pages, call[p].url) = findById(pages0, call[p].url)

C2_Witness ==
  \E p \in Requests :
    /\ Conflict(p) /\ ret[p] = Throw("DuplicateKey")
    /\ deletedPage[p] \in pages /\ txnState[p] = "TRANSACTION_ABORTED"

\* C3: a rename of a key that has no document fails with NotFound, its
\* transaction is aborted, and the collection is as it was.
C3_MissingSource ==
  \A p \in Requests :
    (pc[p] = "done" /\ IsRename(p) /\ Alone(p) /\ findById(pages0, call[p].pageId) = Null) =>
      /\ ret[p] = Throw("NotFound")
      /\ txnState[p] = "TRANSACTION_ABORTED"
      /\ writes[p] = NoWrites
      /\ pages = pages0

C3_Witness ==
  \E p \in Requests :
    /\ pc[p] = "done" /\ IsRename(p) /\ Alone(p)
    /\ call[p].pageId = "a" /\ call[p].url = "b" /\ call[p].page = "u"
    /\ pages0 = {} /\ pages = {}
    /\ ret[p] = Throw("NotFound")

\* A step of p's updatePageUrl other than its successful commit.
RenameStep(p) == IsRename(p) /\ pc'[p] # pc[p] /\ ~Commits(p)

Renamed(p) ==
  (pages0 \ {findById(pages0, call[p].pageId)}) \cup {IPage(call[p].url, call[p].page, call[p].description)}

\* C5: a read that runs beside a rename (oldUrl # url) sees the collection as
\* it was before the rename or as it is after its commit, and the latter
\* only once the rename has committed: never the old document gone without
\* the new one, nor the new one beside the old.
C5_RenameAtomicToReaders ==
  \A p \in Requests : \A q \in Requests \ {p} :
    (IsRename(p) /\ call[p].pageId # call[p].url /\ pc[q] = "done") =>
      /\ call[q].op = "getAll" =>
           \/ ret[q].value = pages0
           \/ ret[p].status = "ok" /\ ret[q].value = Renamed(p)
      /\ call[q].op = "getPageById" =>
           \/ ret[q].value = findById(pages0, call[q].pageId)
           \/ ret[p].status = "ok" /\ ret[q].value = findById(Renamed(p), call[q].pageId)

C5_Witness ==
  \E p \in Requests : \E q \in Requests \ {p} :
    /\ IsRename(p) /\ call[p].pageId # call[p].url /\ pc[p] = "commit"
    /\ writes[p].del # {} /\ writes[p].ins # {}
    /\ pc[q] = "done" /\ call[q].op = "getAll" /\ ret[q].value = pages0

\* C6: when updatePageUrl has returned or thrown, its session has ended.
C6_SessionReleased ==
  \A p \in Requests : (pc[p] = "done" /\ IsRename(p)) => session[p] = "ended"

\* C7: the error updatePageUrl throws is the error its catch block caught.
C7_TriggeringErrorRaised ==
  \A p \in Requests :
    (pc[p] = "done" /\ IsRename(p) /\ caught[p] # "none") => ret[p] = Throw(caught[p])

\* C8: the committed collection never holds two documents with one _id.
C8_KeyUnique ==
  \A d1, d2 \in pages : d1._id = d2._id => d1 = d2

C8_Witness ==
  \E p \in Requests : \E q \in Requests \ {p} :
    /\ pc[p] = "done" /\ pc[q] = "done"
    /\ call[p].op = "createPage" /\ ret[p].status = "ok"
    /\ ret[q] = Throw("DuplicateKey") /\ call[q].url = call[p].url
    /\ Cardinality(pages) = Cardinality(pages0) + 1

\* Two createPage calls for one free url, both with a title.
RaceCreate(p, q) ==
  /\ pc[p] = "done" /\ pc[q] = "done"
  /\ call[p].op = "createPage" /\ call[q].op = "createPage"
  /\ call[p].url = call[q].url /\ call[p].url # ""
  /\ call[p].page # "" /\ call[q].page # ""
  /\ call[p].url \notin Ids(pages0)

\* Two updatePageUrl calls from different documents to one free url, both
\* with a title.
RaceRename(p, q) ==
  /\ pc[p] = "done" /\ pc[q] = "done"
  /\ IsRename(p) /\ IsRename(q)
  /\ call[p].url = call[q].url /\ call[p].url # ""
  /\ call[p].page # "" /\ call[q].page # ""
  /\ call[p].pageId # call[q].pageId
  /\ {call[p].pageId, call[q].pageId} \subseteq Ids(pages0)
  /\ call[p].url \notin Ids(pages0)

Won(p) == ret[p].status = "ok"

\* The collection the race leaves: the winner's change alone.
AfterRace(p, q) ==
  IF Won(p) THEN Renamed(p) ELSE IF Won(q) THEN Renamed(q) ELSE pages0

RaceDelete(p, q) ==
  /\ pc[p] = "done" /\ pc[q] = "done"
  /\ IsRename(p) /\ call[q].op = "deletePage"
  /\ call[q].pageId = call[p].pageId
  /\ call[p].url # call[p].pageId
  /\ findById(pages0, call[p].pageId) # Null

Creates(p) == pc[p] = "called" /\ call[p].op = "createPage" /\ pc'[p] = "done"

\* C11 (as amended): createPage for a url that already holds a document
\* (every document was left by an earlier successful insert) fails, with
\* DuplicateKey when the new title is not empty and with InvalidInput when
\* it is, and the document at the url keeps its title and description.
C11_InsertUnique ==
  [][\A p \in Requests :
       (Creates(p) /\ findById(pages, call[p].url) # Null) =>
         /\ ret'[p] = Throw(IF call[p].page = "" THEN "InvalidInput" ELSE "DuplicateKey")
         /\ findById(pages', call[p].url) = findById(pages, call[p].url)
         /\ pages' = pages]_vars

\* C11 as stated: every second insert for the key fails with DuplicateKey.
C11_Original ==
  [][\A p \in Requests :
       (Creates(p) /\ findById(pages, call[p].url) # Null) =>
         /\ ret'[p] = Throw("DuplicateKey")
         /\ pages' = pages]_vars

\* A first createPage succeeded, a second one for its url failed with
\* DuplicateKey, and the first one's document is still the one stored.
C11_Witness ==
  \E p \in Requests : \E q \in Requests \ {p} :
    /\ pc[p] = "done" /\ pc[q] = "done"
    /\ call[p].op = "createPage" /\ call[q].op = "createPage"
    /\ call[p].url = call[q].url
    /\ ret[q].status = "ok" /\ ret[p] = Throw("DuplicateKey")
    /\ findById(pages, call[p].url) = ret[q].value
    /\ pages = pages0 \cup {ret[q].value}

\* C12: createPage with an empty url or an empty title fails with
\* InvalidInput and leaves the collection as it was, and the collection
\* never holds a document with an empty _id or an empty title.
C12_InsertValidated ==
  /\ [](\A d \in pages : d._id # "" /\ d.page # "")
  /\ [][\A p \in Requests :
          (Creates(p) /\ (call[p].url = "" \/ call[p].page = "")) =>
            /\ ret'[p] = Throw("InvalidInput")
            /\ pages' = pages]_vars

\* One createPage with an empty url and one with an empty title have both
\* been refused, and the collection is the one the server started with.
C12_Witness ==
  \E p \in Requests : \E q \in Requests \ {p} :
    /\ pc[p] = "done" /\ pc[q] = "done"
    /\ call[p].op = "createPage" /\ call[q].op = "createPage"
    /\ call[p].url = "" /\ call[p].page = "u"
    /\ call[q].url # "" /\ call[q].page = ""
    /\ ret[p] = Throw("InvalidInput") /\ ret[q] = Throw("InvalidInput")
    /\ pages = pages0

\* C13: cleanUrl applied to its own result returns that result.
C13_Idempotent ==
  Len(cleaned) = 2 => cleaned[2] = cleaned[1]

\* What C14 says cleanUrl returns for url, position by position: the scheme
\* at the very start is dropped, then one slash at the start and one at
\* the end, and of what is left every character is kept in its place, a
\* dot as a dash.
Described(url, out) ==
  LET scheme == IF StartsWith(url, Http) THEN Len(Http)
                ELSE IF StartsWith(url, Https) THEN Len(Https) ELSE 0
      lead == IF Len(url) > scheme /\ url[scheme + 1] = "/" THEN 1 ELSE 0
      trail == IF Len(url) > scheme + lead /\ url[Len(url)] = "/" THEN 1 ELSE 0
  IN /\ Len(out) = Len(url) - scheme - lead - trail
     /\ \A i \in 1..Len(out) :
          out[i] = IF url[scheme + lead + i] = "." THEN "-" ELSE url[scheme + lead + i]

\* C14: cleanUrl returns what the claim describes; the empty string and a
\* bare scheme give the empty string, and https://example.com/ gives
\* example-com.
C14_CleanUrlResult ==
  Len(cleaned) >= 1 =>
    /\ Described(raw, cleaned[1])
    /\ (raw \in {<<>>, Http, Https} => cleaned[1] = <<>>)
    /\ (raw = Https \o ExampleCom \o <<"/">> =>
          Str(cleaned[1]) = "example-com")

\* cleanUrl has run on a URL with a scheme, slashes at both ends, a slash
\* inside and a dot.
C14_Witness ==
  /\ raw = Https \o ExampleCom \o <<"/">>
  /\ Len(cleaned) >= 1
  /\ Str(cleaned[1]) = "example-com"

\* C18: the updatePage handler calls the controller with cleanUrl of the
\* request's URL as pageId and the body's page as the title, so the document
\* it returns is the one at that key, with that title.
C18_HandlerArguments ==
  \A p \in Requests :
    (pc[p] # "idle" /\ call[p].op = "updatePage") =>
      /\ call[p].pageId = Str(cleanUrl(raw))
      /\ call[p].page = body.page
      /\ (pc[p] = "done" /\ ret[p].status = "ok" /\ ret[p].value # Null) =>
           /\ ret[p].value._id = Str(cleanUrl(raw))
           /\ ret[p].value.page = body.page

\* The step in which p's updatePage runs.
Updates(p) == pc[p] = "called" /\ call[p].op = "updatePage" /\ pc'[p] = "done"

\* C15 (as amended): updatePage(pageId, page, description) on an existing
\* document with a non-empty title returns the document at the same _id
\* with the new title and the given description (an undefined description
\* leaves the old one or none), and with an empty title fails with
\* InvalidInput; no updatePage changes which _ids exist or any document at
\* another _id.
C15_UpdateKeepsKeys ==
  [][\A p \in Requests : Updates(p) =>
       LET old == findById(pages, call[p].pageId)
       IN /\ Ids(pages') = Ids(pages)
          /\ \A d \in pages : d._id # call[p].pageId => d \in pages'
          /\ (old # Null /\ call[p].page = "") =>
               (ret'[p] = Throw("InvalidInput") /\ pages' = pages)
          /\ (old # Null /\ call[p].page # "") =>
               /\ ret'[p].status = "ok"
               /\ ret'[p].value = findById(pages', call[p].pageId)
               /\ ret'[p].value._id = call[p].pageId
               /\ ret'[p].value.page = call[p].page
               /\ IF call[p].description = Undefined
                  THEN ret'[p].value.description \in {old.description, Undefined}
                  ELSE ret'[p].value.description = call[p].description]_vars

\* C15 as stated: every update of an existing document returns the
\* document with the new title.
C15_Original ==
  [][\A p \in Requests :
       (Updates(p) /\ findById(pages, call[p].pageId) # Null) =>
         /\ ret'[p].status = "ok"
         /\ ret'[p].value = findById(pages', call[p].pageId)
         /\ ret'[p].value.page = call[p].page
         /\ Ids(pages') = Ids(pages)]_vars

\* An updatePage has replaced the title and description of one of several
\* documents.
C15_Witness ==
  \E p \in Requests :
    /\ pc[p] = "done" /\ call[p].op = "updatePage" /\ Alone(p)
    /\ Cardinality(pages0) >= 2
    /\ IPage(call[p].pageId, "t", Undefined) \in pages0
    /\ ret[p] = Ok(IPage(call[p].pageId, "u", "d"))
    /\ pages = (pages0 \ {IPage(call[p].pageId, "t", Undefined)}) \cup {ret[p].value}

\* C16 (as amended): updatePage for an _id with no document and a non-empty
\* title returns null without throwing; with an empty title it throws
\* InvalidInput; in both cases no document is created and the collection
\* is unchanged.
C16_UpdateMiss ==
  [][\A p \in Requests :
       (Updates(p) /\ findById(pages, call[p].pageId) = Null) =>
         /\ ret'[p] = IF call[p].page = "" THEN Throw("InvalidInput") ELSE Ok(Null)
         /\ pages' = pages]_vars

\* C16 as stated: every update of a missing _id returns null without
\* throwing.
C16_Original ==
  [][\A p \in Requests :
       (Updates(p) /\ findById(pages, call[p].pageId) = Null) =>
         /\ ret'[p] = Ok(Null)
         /\ pages' = pages]_vars

\* An updatePage with a title found no document at its _id, returned null
\* and left the non-empty collection as it was.
C16_Witness ==
  \E p \in Requests :
    /\ pc[p] = "done" /\ call[p].op = "updatePage" /\ Alone(p)
    /\ call[p].pageId # "" /\ call[p].page = "u"
    /\ call[p].pageId \notin Ids(pages0)
    /\ ret[p] = Ok(Null)
    /\ pages = pages0 /\ pages # {}

\* The steps in which p's deletePage and p's getPageById run.
Deletes(p) == pc[p] = "called" /\ call[p].op = "deletePage" /\ pc'[p] = "done"
Gets(p) == pc[p] = "called" /\ call[p].op = "getPageById" /\ pc'[p] = "done"

\* C17: deletePage(pageId) returns the document at pageId and removes that
\* document only, or returns null and changes nothing when there is none;
\* a getPageById(pageId) that follows returns null and does not throw.
C17_DeleteThenGet ==
  [][\A p \in Requests :
       /\ Deletes(p) =>
            LET d == findById(pages, call[p].pageId)
            IN /\ ret'[p] = Ok(d)
               /\ pages' = IF d = Null THEN pages ELSE pages \ {d}
               /\ findById(pages', call[p].pageId) = Null
       /\ (Gets(p) /\ \E q \in Requests \ {p} :
                        /\ pc[q] = "done" /\ call[q].op = "deletePage"
                        /\ call[q].pageId = call[p].pageId) =>
            ret'[p] = Ok(Null)]_vars

\* A deletePage returned the document it removed from among several, and the
\* getPageById for its _id that followed returned null.
C17_Witness ==
  \E p \in Requests : \E q \in Requests \ {p} :
    /\ pc[p] = "done" /\ pc[q] = "done"
    /\ call[q].op = "deletePage" /\ call[p].op = "getPageById"
    /\ call[p].pageId = call[q].pageId
    /\ ret[q].status = "ok" /\ ret[q].value \in pages0
    /\ ret[q].value._id = call[q].pageId
    /\ ret[p] = Ok(Null)
    /\ Cardinality(pages0) >= 2
    /\ pages = pages0 \ {ret[q].value}

\* C19: the step in which updatePageUrl(oldUrl, {url, ...}) with
\* url # oldUrl commits leaves every document at another _id as it was and
\* the number of documents unchanged.
C19_RenameTouchesTwoKeys ==
  [][\A p \in Requests :
       (Commits(p) /\ call[p].url # call[p].pageId) =>
         /\ \A d \in pages \cup pages' :
              d._id \notin {call[p].pageId, call[p].url} => (d \in pages /\ d \in pages')
         /\ Cardinality(pages') = Cardinality(pages)]_vars

\* A rename to another url has committed in a collection with a third
\* document, which is still there, and the collection is as large as before.
C19_Witness ==
  \E p \in Requests :
    /\ pc[p] = "done" /\ IsRename(p) /\ ret[p].status = "ok" /\ Alone(p)
    /\ call[p].url # call[p].pageId
    /\ \E d \in pages0 : d._id \notin {call[p].pageId, call[p].url} /\ d \in pages
    /\ findById(pages, call[p].pageId) = Null
    /\ findById(pages, call[p].url) = ret[p].value
    /\ Cardinality(pages) = Cardinality(pages0)

====
